---- MODULE Spec2Model ----
(***************************************************************************)
(* Model of the escrow program's instruction processor                     *)
(* (src/src/processor.rs): the two handlers process_init_escrow and        *)
(* process_exchange, run by the host one instruction at a time, over the   *)
(* host's account store.  The token program the handlers call through      *)
(* invoke / invoke_signed is modelled by what its three instructions       *)
(* (set_authority, transfer, close_account) do to the accounts.            *)
(***************************************************************************)
EXTENDS Integers, Sequences, FiniteSets, TLC

(* ------------------------------ bounds --------------------------------- *)
\* largest token amount / amount argument / expected_amount explored
MaxAmount == 1
\* stands for u64::MAX in the lamport arithmetic (checked_add, line 228)
MaxLamports == 14

(* --------------------------- identities -------------------------------- *)
PROGRAM_ID == "escrow"            \* program_id handed to process()
\* spl_token::id(); the account passed as token_program is this program (the
\* spl_token::instruction builders refuse any other id)
TOKEN_PROGRAM == "spl_token"
SYSTEM_PROGRAM == "system"
OTHER_PROGRAM == "other"          \* any third program
\* Pubkey::find_program_address(&[b"escrow"], program_id): a function of the
\* fixed seed and the program id only (lines 80 and 125)
find_program_address(program_id) ==
    IF program_id = PROGRAM_ID THEN [pda |-> "pda", nonce |-> 255]
    ELSE [pda |-> "pda_other", nonce |-> 254]

\* the address the seeds [b"escrow", nonce] sign for in invoke_signed
create_program_address(nonce, program_id) ==
    IF nonce = find_program_address(program_id).nonce
    THEN find_program_address(program_id).pda
    ELSE "off_curve"

Wallets == {"alice", "bob"}
Tokens == {"aX", "aY", "bX", "bY"}
Slots == {"e1"}
\* the record slots of the specifications of several offers
OfferSlots == {"e1", "e2"}
\* an account that exists only inside one transaction: created with no
\* lamports and filled in by OTHER_PROGRAM before the escrow instruction runs
Forged == {"f1"}
PdaKey == find_program_address(PROGRAM_ID).pda
Keys == Wallets \cup Tokens \cup OfferSlots \cup Forged \cup {PdaKey}
ZeroKey == "0"                    \* the all-zero Pubkey of a zeroed slot

(* --------------------------- account data ------------------------------ *)
NoData == [kind |-> "none"]       \* data_len = 0
ZeroedData == [kind |-> "zeroed"] \* a closed token account's wiped bytes
TokenData(mint, owner, amount) ==
    [kind |-> "token", mint |-> mint, owner |-> owner, amount |-> amount]
EscrowData(init, initializer, temp, recv, amount) ==
    [kind |-> "escrow", is_initialized |-> init,
     initializer_pubkey |-> initializer,
     temp_token_account_pubkey |-> temp,
     initializer_token_to_receive_account_pubkey |-> recv,
     expected_amount |-> amount]
\* a freshly allocated slot: Escrow::LEN zero bytes
ZeroedEscrow == EscrowData(FALSE, ZeroKey, ZeroKey, ZeroKey, 0)

Account(owner, lamports, data) ==
    [owner |-> owner, lamports |-> lamports, data |-> data]
NoAccount == Account(SYSTEM_PROGRAM, 0, NoData)

\* rent-exempt minimum of an escrow slot / of a token account (scaled)
SlotRent == 2
TokenRent == 1
\* a main account so rich that the slot's lamports no longer fit on top of a
\* closed deposit account's (the overflow guarded at line 228)
RichLamports == MaxLamports - SlotRent
\* Rent::minimum_balance(data_len): never zero, grows with the data length
minimum_balance(data) ==
    IF data.kind = "escrow" THEN SlotRent ELSE 1
\* Rent::is_exempt(lamports, data_len), line 64
is_exempt(lamports, data) == lamports >= minimum_balance(data)

(* --------------------- Escrow (state.rs) codec ------------------------- *)
\* Pack::unpack_unchecked: only the length must be Escrow::LEN (line 68)
unpack_unchecked_ok(data) == data.kind = "escrow"
\* IsInitialized for Escrow (line 69)
is_initialized(data) == data.is_initialized
\* Pack::unpack: length and is_initialized (line 137)
unpack_ok(data) == unpack_unchecked_ok(data) /\ is_initialized(data)

\* accounts: the host's committed account store, key -> Account
\* last: the instruction just processed (its arguments, its result and the
\*       token calls it issued), NoCall once its result has been delivered
VARIABLES accounts, last
vars == <<accounts, last>>

NoCall == [op |-> "none"]

(* ------------------------ results of a handler ------------------------- *)
\* err = "Ok" or the error; accts = the accounts as the handler left them;
\* calls = the token-program instructions issued, in order
Result(err, accts, calls) == [err |-> err, accts |-> accts, calls |-> calls]

(* --------------------------- token program ----------------------------- *)
\* Processor::validate_owner of the token program: the authority named in
\* the instruction must be the account's owner and must have signed
validate_owner(expected_owner, authority, signers) ==
    IF expected_owner # authority THEN "OwnerMismatch"
    ELSE IF authority \notin signers THEN "MissingRequiredSignature"
    ELSE "Ok"

\* Account::unpack of the token program: a token account it owns
token_unpack_ok(acct) == acct.owner = TOKEN_PROGRAM /\ acct.data.kind = "token"

\* set_authority(account, Some(new), AccountOwner, authority), lines 85-102
set_authority(accts, account, new_authority, authority, signers) ==
    IF ~token_unpack_ok(accts[account]) THEN [err |-> "InvalidAccountData", accts |-> accts]
    ELSE LET v == validate_owner(accts[account].data.owner, authority, signers)
         IN IF v # "Ok" THEN [err |-> v, accts |-> accts]
            ELSE [err |-> "Ok",
                  accts |-> [accts EXCEPT ![account].data.owner = new_authority]]

\* transfer(source, destination, authority, amount), lines 162-202
transfer(accts, source, destination, authority, signers, amount) ==
    IF ~token_unpack_ok(accts[source]) \/ ~token_unpack_ok(accts[destination])
    THEN [err |-> "InvalidAccountData", accts |-> accts]
    ELSE IF accts[source].data.amount < amount
    THEN [err |-> "InsufficientFunds", accts |-> accts]
    ELSE IF accts[source].data.mint # accts[destination].data.mint
    THEN [err |-> "MintMismatch", accts |-> accts]
    ELSE LET v == validate_owner(accts[source].data.owner, authority, signers)
         IN IF v # "Ok" THEN [err |-> v, accts |-> accts]
            ELSE IF source = destination THEN [err |-> "Ok", accts |-> accts]
            ELSE [err |-> "Ok",
                  accts |-> [accts EXCEPT
                      ![source].data.amount = @ - amount,
                      ![destination].data.amount = @ + amount]]

\* close_account(account, destination, authority), lines 205-222
close_account(accts, account, destination, authority, signers) ==
    IF account = destination THEN [err |-> "InvalidAccountData", accts |-> accts]
    ELSE IF ~token_unpack_ok(accts[account])
    THEN [err |-> "InvalidAccountData", accts |-> accts]
    ELSE IF accts[account].data.amount # 0
    THEN [err |-> "NonNativeHasBalance", accts |-> accts]
    ELSE LET v == validate_owner(accts[account].data.owner, authority, signers)
         IN IF v # "Ok" THEN [err |-> v, accts |-> accts]
            ELSE IF accts[destination].lamports + accts[account].lamports > MaxLamports
            THEN [err |-> "Overflow", accts |-> accts]
            ELSE [err |-> "Ok",
                  accts |-> [accts EXCEPT
                      ![destination].lamports = @ + accts[account].lamports,
                      ![account].lamports = 0,
                      ![account].data = ZeroedData]]

(* ------------------------------- host ---------------------------------- *)
\* what the host keeps of an account when a transaction commits: an account
\* left with no lamports is discarded, data included
Purge(accts) ==
    [k \in DOMAIN accts |-> IF accts[k].lamports = 0 THEN NoAccount ELSE accts[k]]

\* the host's check of an instruction's own writes: only the owner program may
\* change an account's data or take lamports out of it
OwnWriteAllowed(before, after) ==
    \/ before.owner = PROGRAM_ID
    \/ (after.data = before.data /\ after.lamports >= before.lamports)

(* ---------------------------- InitEscrow ------------------------------- *)
\* the signer check left out
InitSignerCheck_Skipped(a) == TRUE
\* line 48
InitSignerCheck(a) == a.initializer_is_signer
\* the owner of the receiving account not looked at
InitReceiveOwnerCheck_Skipped(accts, a) == TRUE
\* line 55
InitReceiveOwnerCheck(accts, a) ==
    accts[a.token_to_receive_account].owner = TOKEN_PROGRAM
\* the slot's lamports not compared with the rent-exempt minimum
InitRentCheck_Skipped(accts, a) == TRUE
\* line 64
InitRentCheck(accts, a) ==
    is_exempt(accts[a.escrow_account].lamports, accts[a.escrow_account].data)
\* the is_initialized check left out
InitUninitializedCheck_Skipped(data) == TRUE
\* lines 69-71
InitUninitializedCheck(data) == ~is_initialized(data)
\* the deposit and receiving identities stored in each other's field
InitRecord_SwappedAccounts(a) ==
    EscrowData(TRUE, a.initializer, a.token_to_receive_account,
               a.temp_token_account, a.amount)
\* lines 73-79: the record written into the slot
InitRecord(a) ==
    EscrowData(TRUE, a.initializer, a.temp_token_account,
               a.token_to_receive_account, a.amount)
\* line 80 and line 88: the new authority handed to set_authority
InitNewAuthority == find_program_address(PROGRAM_ID).pda

process_init_escrow(accts, a) ==
    IF ~InitSignerCheck(a)
    THEN Result("MissingRequiredSignature", accts, <<>>)
    ELSE IF ~InitReceiveOwnerCheck(accts, a)
    THEN Result("IncorrectProgramId", accts, <<>>)
    ELSE IF ~InitRentCheck(accts, a)
    THEN Result("NotRentExempt", accts, <<>>)
    ELSE IF ~unpack_unchecked_ok(accts[a.escrow_account].data)
    THEN Result("InvalidAccountData", accts, <<>>)
    ELSE IF ~InitUninitializedCheck(accts[a.escrow_account].data)
    THEN Result("AccountAlreadyInitialized", accts, <<>>)
    ELSE LET packed == [accts EXCEPT ![a.escrow_account].data = InitRecord(a)]
         IN IF ~OwnWriteAllowed(accts[a.escrow_account], packed[a.escrow_account])
            THEN Result("ExternalAccountDataModified", packed, <<>>)
            ELSE LET cpi == set_authority(packed, a.temp_token_account,
                                          InitNewAuthority, a.initializer,
                                          {a.initializer})
                 IN Result(cpi.err, cpi.accts, <<"set_authority">>)

(* ------------------------------ Exchange ------------------------------- *)
\* line 116
ExchSignerCheck(a) == a.taker_is_signer
\* lines 123-124: TokenAccount::unpack of the supplied deposit account
ExchUnpackDeposit(accts, a) == accts[a.pdas_temp_token_account].data.kind = "token"
\* the amount check left out
ExchAmountCheck_Skipped(a, info) == TRUE
\* line 127
ExchAmountCheck(a, info) == a.amount = info.amount
\* lines 145-147
ExchDepositCheck(escrow_info, a) ==
    escrow_info.temp_token_account_pubkey = a.pdas_temp_token_account
\* the initializer identity check left out
ExchInitializerCheck_Skipped(escrow_info, a) == TRUE
\* lines 149-151
ExchInitializerCheck(escrow_info, a) ==
    escrow_info.initializer_pubkey = a.initializers_main_account
\* lines 153-157
ExchReceiveCheck(escrow_info, a) ==
    escrow_info.initializer_token_to_receive_account_pubkey
        = a.initializers_token_to_receive_account
\* the first transfer pays nothing
ExchPayAmount_Nothing(escrow_info) == 0
\* line 168: the amount of the first transfer
ExchPayAmount(escrow_info) == escrow_info.expected_amount
\* line 190: the amount of the second transfer, the balance read at line 124
ExchReleaseAmount(info) == info.amount
\* the authority named by the account the caller supplies as pda_account
ExchDerivedAuthority_FromPlaceholder(a) == [pda |-> a.pda_account, nonce |-> 255]
\* line 125: (pda, nonce), from the seed and the program id
ExchDerivedAuthority(a) == find_program_address(PROGRAM_ID)
\* invoke_signed with seeds [b"escrow", nonce] (lines 193-202, 213-222): the
\* address the seeds and the nonce stand for signs, when the caller passed the
\* account of the derived address as pda_account
ExchPdaSigners(a, derived) ==
    IF a.pda_account = derived.pda
    THEN {create_program_address(derived.nonce, PROGRAM_ID)}
    ELSE {}

\* the slot's lamports zeroed without being credited to the initializer
ExchCloseSlot_NoCredit(accts, a) ==
    [err |-> "Ok", accts |-> [accts EXCEPT ![a.escrow_account].lamports = 0]]
\* the initializer credited, the slot's lamports left in place
ExchCloseSlot_KeepLamports(accts, a) ==
    IF accts[a.initializers_main_account].lamports
           + accts[a.escrow_account].lamports > MaxLamports
    THEN [err |-> "AmountOverflow", accts |-> accts]
    ELSE [err |-> "Ok",
          accts |-> [accts EXCEPT
              ![a.initializers_main_account].lamports =
                  @ + accts[a.escrow_account].lamports]]
\* the sum taken modulo the width of the lamport counter
ExchCloseSlot_Wrapping(accts, a) ==
    [err |-> "Ok",
     accts |-> [accts EXCEPT
         ![a.initializers_main_account].lamports =
             (@ + accts[a.escrow_account].lamports) % (MaxLamports + 1),
         ![a.escrow_account].lamports = 0]]
\* lines 224-231: sweep the slot's lamports to the initializer.  Line 231
\* rebinds the AccountInfo's data slice and writes no byte of the account; the
\* host drops the data when it discards the lamport-less account (Purge)
ExchCloseSlot(accts, a) ==
    IF accts[a.initializers_main_account].lamports
           + accts[a.escrow_account].lamports > MaxLamports
    THEN [err |-> "AmountOverflow", accts |-> accts]
    ELSE [err |-> "Ok",
          accts |-> [accts EXCEPT
              ![a.initializers_main_account].lamports =
                  @ + accts[a.escrow_account].lamports,
              ![a.escrow_account].lamports = 0]]

\* the two transfers made, the deposit account and the record slot left open
ExchEffects_NoClose(accts, a, info, escrow_info, derived) ==
    LET c1 == <<"transfer_to_initializer">>
        c2 == c1 \o <<"transfer_to_taker">>
        t1 == transfer(accts, a.takers_sending_token_account,
                       a.initializers_token_to_receive_account,
                       a.taker, {a.taker}, ExchPayAmount(escrow_info))
    IN IF t1.err # "Ok" THEN Result(t1.err, t1.accts, c1)
       ELSE
       LET t2 == transfer(t1.accts, a.pdas_temp_token_account,
                          a.takers_token_to_receive_account,
                          derived.pda, ExchPdaSigners(a, derived), ExchReleaseAmount(info))
       IN Result(t2.err, t2.accts, c2)

\* lines 159-233, after every precondition has passed
ExchEffects(accts, a, info, escrow_info, derived) ==
    LET c1 == <<"transfer_to_initializer">>
        c2 == c1 \o <<"transfer_to_taker">>
        c3 == c2 \o <<"close_account">>
        t1 == transfer(accts, a.takers_sending_token_account,
                       a.initializers_token_to_receive_account,
                       a.taker, {a.taker}, ExchPayAmount(escrow_info))
    IN IF t1.err # "Ok" THEN Result(t1.err, t1.accts, c1)
       ELSE
       LET t2 == transfer(t1.accts, a.pdas_temp_token_account,
                          a.takers_token_to_receive_account,
                          derived.pda, ExchPdaSigners(a, derived), ExchReleaseAmount(info))
       IN IF t2.err # "Ok" THEN Result(t2.err, t2.accts, c2)
          ELSE
          LET cl == close_account(t2.accts, a.pdas_temp_token_account,
                                  a.initializers_main_account,
                                  derived.pda, ExchPdaSigners(a, derived))
          IN IF cl.err # "Ok" THEN Result(cl.err, cl.accts, c3)
             ELSE
             LET sw == ExchCloseSlot(cl.accts, a)
             IN IF sw.err # "Ok" THEN Result(sw.err, sw.accts, c3)
                ELSE IF ~OwnWriteAllowed(accts[a.escrow_account],
                                         sw.accts[a.escrow_account])
                THEN Result("ExternalAccountLamportSpend", sw.accts, c3)
                ELSE Result("Ok", sw.accts, c3)

process_exchange(accts, a) ==
    IF ~ExchSignerCheck(a)
    THEN Result("MissingRequiredSignature", accts, <<>>)
    ELSE IF ~ExchUnpackDeposit(accts, a)
    THEN Result("InvalidAccountData", accts, <<>>)
    ELSE
    LET pdas_temp_token_account_info == accts[a.pdas_temp_token_account].data
        derived == ExchDerivedAuthority(a)
        escrow_data == accts[a.escrow_account].data
    IN IF ~ExchAmountCheck(a, pdas_temp_token_account_info)
       THEN Result("ExpectedAmountMismatch", accts, <<>>)
       ELSE IF ~unpack_unchecked_ok(escrow_data)
       THEN Result("InvalidAccountData", accts, <<>>)
       ELSE IF ~is_initialized(escrow_data)
       THEN Result("UninitializedAccount", accts, <<>>)
       ELSE IF ~ExchDepositCheck(escrow_data, a)
       THEN Result("InvalidAccountData", accts, <<>>)
       ELSE IF ~ExchInitializerCheck(escrow_data, a)
       THEN Result("InvalidAccountData", accts, <<>>)
       ELSE IF ~ExchReceiveCheck(escrow_data, a)
       THEN Result("InvalidAccountData", accts, <<>>)
       ELSE ExchEffects(accts, a, pdas_temp_token_account_info, escrow_data, derived)

\* the effects of a failed handler kept
Commit_KeepPartial(before, res) == Purge(res.accts)
\* what the host commits: everything the handler did, or nothing
Commit(before, res) ==
    IF res.err = "Ok" THEN Purge(res.accts) ELSE before

InitArgs ==
    [initializer : Wallets, initializer_is_signer : BOOLEAN,
     temp_token_account : Tokens,
     token_to_receive_account : Tokens \cup Wallets,
     escrow_account : Slots \cup Forged,
     amount : 0..MaxAmount]

InitEscrow ==
    /\ last = NoCall
    /\ \E a \in InitArgs :
         LET res == process_init_escrow(accounts, a)
         IN /\ accounts' = Commit(accounts, res)
            /\ last' = [op |-> "InitEscrow", args |-> a,
                        err |-> res.err, calls |-> res.calls]

\* the account the caller passes as escrow_account when it is not a slot of
\* this program: made by OTHER_PROGRAM earlier in the same transaction, with
\* no lamports and with the bytes of an initialized record that names the
\* other accounts the caller supplies and expects nothing in return
ForgedAccount(a) ==
    Account(OTHER_PROGRAM, 0,
            EscrowData(TRUE, a.initializers_main_account,
                       a.pdas_temp_token_account,
                       a.initializers_token_to_receive_account, 0))

\* the accounts the instruction runs on
ExchAccounts(accts, a) ==
    IF a.escrow_account \in Forged
    THEN [accts EXCEPT ![a.escrow_account] = ForgedAccount(a)]
    ELSE accts

ExchArgs ==
    [taker : Wallets, taker_is_signer : BOOLEAN,
     takers_sending_token_account : Tokens,
     takers_token_to_receive_account : Tokens,
     pdas_temp_token_account : Tokens,
     initializers_main_account : Wallets,
     initializers_token_to_receive_account : Tokens,
     escrow_account : Slots \cup Forged,
     pda_account : {PdaKey, "alice"},
     amount : 0..MaxAmount]

Exchange ==
    /\ last = NoCall
    /\ \E a \in ExchArgs :
         LET res == process_exchange(ExchAccounts(accounts, a), a)
         IN /\ accounts' = Commit(accounts, res)
            /\ last' = [op |-> "Exchange", args |-> a,
                        err |-> res.err, calls |-> res.calls]

\* the caller receives the result; the next transaction may be submitted
Confirm ==
    /\ last # NoCall
    /\ last' = NoCall
    /\ UNCHANGED accounts

Init ==
    /\ \E funded \in {SlotRent - 1, SlotRent} :
       accounts = [k \in Keys |->
            CASE k = "alice" -> Account(SYSTEM_PROGRAM, 1, NoData)
              [] k = "bob" -> Account(SYSTEM_PROGRAM, RichLamports, NoData)
              [] k = "aX" -> Account(TOKEN_PROGRAM, TokenRent, TokenData("X", "alice", MaxAmount))
              [] k = "aY" -> Account(TOKEN_PROGRAM, TokenRent, TokenData("Y", "alice", 0))
              [] k = "bX" -> Account(TOKEN_PROGRAM, TokenRent, TokenData("X", "bob", 0))
              [] k = "bY" -> Account(TOKEN_PROGRAM, TokenRent, TokenData("Y", "bob", MaxAmount))
              [] k = "e1" -> Account(PROGRAM_ID, funded, ZeroedEscrow)
              [] OTHER -> NoAccount]
    /\ last = NoCall

Next == InitEscrow \/ Exchange \/ Confirm

Spec == Init /\ [][Next]_vars

(* -------- offers on two slots; a slot its caller allocates again -------- *)
InitOfferArgs ==
    [initializer : Wallets, initializer_is_signer : BOOLEAN,
     temp_token_account : Tokens,
     token_to_receive_account : Tokens \cup Wallets,
     escrow_account : OfferSlots,
     amount : 0..MaxAmount]

InitEscrowOffer ==
    /\ last = NoCall
    /\ \E a \in InitOfferArgs :
         LET res == process_init_escrow(accounts, a)
         IN /\ accounts' = Commit(accounts, res)
            /\ last' = [op |-> "InitEscrow", args |-> a,
                        err |-> res.err, calls |-> res.calls]

\* what a taker of the offer in slot s supplies: the three accounts the record
\* names, and accounts, signature and amount of its own choice
TakeArgs(accts, s) ==
    {[taker |-> t, taker_is_signer |-> signed,
      takers_sending_token_account |-> sending,
      takers_token_to_receive_account |-> receiving,
      pdas_temp_token_account |-> accts[s].data.temp_token_account_pubkey,
      initializers_main_account |-> accts[s].data.initializer_pubkey,
      initializers_token_to_receive_account |->
          accts[s].data.initializer_token_to_receive_account_pubkey,
      escrow_account |-> s, pda_account |-> p, amount |-> n] :
        t \in Wallets, signed \in BOOLEAN, sending \in Tokens,
        receiving \in Tokens, p \in {PdaKey, "alice"}, n \in 0..MaxAmount}

ExchangeOffer ==
    /\ last = NoCall
    /\ \E s \in OfferSlots :
         /\ unpack_ok(accounts[s].data)
         /\ \E a \in TakeArgs(accounts, s) :
              LET res == process_exchange(accounts, a)
              IN /\ accounts' = Commit(accounts, res)
                 /\ last' = [op |-> "Exchange", args |-> a,
                             err |-> res.err, calls |-> res.calls]

\* the caller creates the account of a slot that does not exist or holds no
\* data: Escrow::LEN zero bytes, owned by the program, funded by a wallet up to
\* the rent-exempt minimum
AllocateSlot ==
    /\ last = NoCall
    /\ \E s \in Slots, payer \in Wallets :
         LET missing == IF accounts[s].lamports >= SlotRent THEN 0
                        ELSE SlotRent - accounts[s].lamports
         IN /\ accounts[s].data = NoData
            /\ accounts[payer].lamports >= missing
            /\ accounts' = [accounts EXCEPT
                   ![payer].lamports = @ - missing,
                   ![s] = Account(PROGRAM_ID, accounts[s].lamports + missing,
                                  ZeroedEscrow)]
    /\ UNCHANGED last

\* a wallet transfers lamports to the address of a slot that does not exist:
\* the host keeps an account without data there, owned by the system program
FundSlot ==
    /\ last = NoCall
    /\ \E s \in Slots, payer \in Wallets, n \in 1..SlotRent :
         /\ accounts[s] = NoAccount
         /\ accounts[payer].lamports >= n
         /\ accounts' = [accounts EXCEPT ![payer].lamports = @ - n,
                                         ![s].lamports = n]
    /\ UNCHANGED last

\* the accounts of the offers: every wallet can pay for one slot, and the
\* lamports in existence fit the lamport counter, so no sum of balances
\* overflows; the slots in allocated are allocated and funded
OfferAccounts(allocated) ==
    [k \in Keys |->
        CASE k \in Wallets -> Account(SYSTEM_PROGRAM, SlotRent + TokenRent, NoData)
          [] k = "aX" -> Account(TOKEN_PROGRAM, TokenRent, TokenData("X", "alice", MaxAmount))
          [] k = "aY" -> Account(TOKEN_PROGRAM, TokenRent, TokenData("Y", "alice", 0))
          [] k = "bX" -> Account(TOKEN_PROGRAM, TokenRent, TokenData("X", "bob", 0))
          [] k = "bY" -> Account(TOKEN_PROGRAM, TokenRent, TokenData("Y", "bob", MaxAmount))
          [] k \in allocated -> Account(PROGRAM_ID, SlotRent, ZeroedEscrow)
          [] OTHER -> NoAccount]

\* two slots, each used once
InitOffers == accounts = OfferAccounts(OfferSlots) /\ last = NoCall

NextOffers == InitEscrowOffer \/ ExchangeOffer \/ Confirm

SpecOffers == InitOffers /\ [][NextOffers]_vars

\* one slot, which the caller may fund and allocate again once it is closed
InitReuse == accounts = OfferAccounts(Slots) /\ last = NoCall

NextReuse ==
    InitEscrowOffer \/ ExchangeOffer \/ AllocateSlot \/ FundSlot \/ Confirm

SpecReuse == InitReuse /\ [][NextReuse]_vars

(* ============================ properties =============================== *)
ExchangeDone(l) == l.op = "Exchange"
ExchangeOk(l) == l.op = "Exchange" /\ l.err = "Ok"
InitiateDone(l) == l.op = "InitEscrow"
InitiateOk(l) == l.op = "InitEscrow" /\ l.err = "Ok"
IsToken(acct) == acct.data.kind = "token"
CustodyHeld(acct) == IsToken(acct) /\ acct.data.owner = PdaKey
Active(acct) == unpack_ok(acct.data)
Balance(acct) == IF IsToken(acct) THEN acct.data.amount ELSE 0

\* tokens leave the custody-held token account t in this step
TokensLeave(t) ==
    /\ CustodyHeld(accounts[t])
    /\ Balance(accounts'[t]) < Balance(accounts[t])

\* C1: tokens leave a deposit account held by the Custody Address only in a
\* successful Exchange that runs on a record of this program's slot, populated
\* by Initiate for that deposit account, and that pays the record's
\* expected_amount to the record's receiving account (compared where that
\* account is none of the other token accounts of the call).
C1_ReleaseOnlyAgainstPayment ==
    [][\A t \in Tokens : TokensLeave(t) =>
         /\ ExchangeOk(last')
         /\ LET s == last'.args.escrow_account
                r == accounts[s].data
            IN /\ s \in Slots
               /\ accounts[s].owner = PROGRAM_ID
               /\ Active(accounts[s])
               /\ r.temp_token_account_pubkey = t
               /\ LET recv == r.initializer_token_to_receive_account_pubkey
                  IN \/ recv \in {t, last'.args.takers_sending_token_account,
                                  last'.args.takers_token_to_receive_account}
                     \/ Balance(accounts'[recv])
                           = Balance(accounts[recv]) + r.expected_amount]_vars

\* C2: an Exchange that fails, at a precondition, at any of its three token
\* calls or at the lamport sweep, commits nothing: every account is as before;
\* an Exchange that commits has made all three token calls.
C2_ExchangeAllOrNothing ==
    [][ExchangeDone(last') =>
         IF last'.err = "Ok" THEN Len(last'.calls) = 3
         ELSE accounts' = accounts]_vars

\* an Exchange that failed at the lamport sweep, its three token calls made
C2_FailedAfterThreeCalls ==
    /\ ExchangeDone(last) /\ last.err = "AmountOverflow"
    /\ Len(last.calls) = 3

\* the accounts the Exchange recorded in last' ran on
PreExchange == ExchAccounts(accounts, last'.args)

\* C3 as claimed: every successful Exchange, whatever accounts coincide, adds
\* exactly expected_amount to the initializer's receiving account and exactly
\* the deposit's pre-call balance to the taker's receiving account.
C3_ExactCreditsAnyAccounts ==
    [][ExchangeOk(last') =>
         LET a == last'.args
             pre == PreExchange
             r == pre[a.escrow_account].data
         IN /\ Balance(accounts'[a.initializers_token_to_receive_account])
                  = Balance(pre[a.initializers_token_to_receive_account])
                    + r.expected_amount
            /\ Balance(accounts'[a.takers_token_to_receive_account])
                  = Balance(pre[a.takers_token_to_receive_account])
                    + Balance(pre[a.pdas_temp_token_account])]_vars

\* the four token accounts of an Exchange are pairwise different
DistinctTokenAccounts(a) ==
    Cardinality({a.takers_sending_token_account,
                 a.takers_token_to_receive_account,
                 a.pdas_temp_token_account,
                 a.initializers_token_to_receive_account}) = 4

\* C3 amended: the same, for every successful Exchange whose four token
\* accounts are pairwise different, expected_amount 0 included.
C3_ExactCreditsDistinctAccounts ==
    [][(ExchangeOk(last') /\ DistinctTokenAccounts(last'.args)) =>
         LET a == last'.args
             pre == PreExchange
             r == pre[a.escrow_account].data
         IN /\ Balance(accounts'[a.initializers_token_to_receive_account])
                  = Balance(pre[a.initializers_token_to_receive_account])
                    + r.expected_amount
            /\ Balance(accounts'[a.takers_token_to_receive_account])
                  = Balance(pre[a.takers_token_to_receive_account])
                    + Balance(pre[a.pdas_temp_token_account])]_vars

\* bob has taken alice's offer of her X deposit against his Y tokens
C3_Witness ==
    /\ ExchangeOk(last) /\ last.args.escrow_account \in Slots
    /\ last.args.pdas_temp_token_account = "aX"
    /\ last.args.takers_token_to_receive_account = "bX"
    /\ last.args.takers_sending_token_account = "bY"
    /\ last.args.initializers_token_to_receive_account = "aY"
    /\ Balance(accounts["aY"]) = MaxAmount
    /\ Balance(accounts["bX"]) = MaxAmount

\* C4: after a successful Exchange the deposit account is closed with no
\* token balance, the record slot has no lamports and no longer decodes as an
\* initialized record, and the initializer's main account has gained at least
\* the lamports the deposit account and the slot held before the call.
C4_ClosedAndRefunded ==
    [][ExchangeOk(last') =>
         LET a == last'.args
             pre == PreExchange
         IN /\ ~IsToken(accounts'[a.pdas_temp_token_account])
            /\ accounts'[a.pdas_temp_token_account].lamports = 0
            /\ accounts'[a.escrow_account].lamports = 0
            /\ ~Active(accounts'[a.escrow_account])
            /\ accounts'[a.initializers_main_account].lamports
                  >= pre[a.initializers_main_account].lamports
                     + pre[a.pdas_temp_token_account].lamports
                     + pre[a.escrow_account].lamports]_vars

\* a successful Exchange on a record slot of the program
C4_Witness ==
    /\ ExchangeOk(last) /\ last.args.escrow_account \in Slots
    /\ accounts[last.args.initializers_main_account].lamports
          >= SlotRent + TokenRent + SlotRent - 1

\* C5: after a successful Initiate the slot holds an initialized record whose
\* four fields are the supplied initializer, deposit account, receiving
\* account and amount, and the deposit account's authority is the address
\* derived from the seed and the program id.
C5_RecordAndCustody ==
    InitiateOk(last) =>
        LET a == last.args
            d == accounts[a.escrow_account].data
        IN /\ d.kind = "escrow" /\ d.is_initialized
           /\ d.initializer_pubkey = a.initializer
           /\ d.temp_token_account_pubkey = a.temp_token_account
           /\ d.initializer_token_to_receive_account_pubkey
                 = a.token_to_receive_account
           /\ d.expected_amount = a.amount
           /\ IsToken(accounts[a.temp_token_account])
           /\ accounts[a.temp_token_account].data.owner
                 = find_program_address(PROGRAM_ID).pda

\* a successful Initiate with a non-zero amount
C5_Witness == InitiateOk(last) /\ last.args.amount > 0

\* the accounts the Initiate recorded in last' ran on are the committed ones
InitSlot == accounts[last'.args.escrow_account]

\* C6 as claimed: an Initiate on a slot holding an initialized record fails
\* with AccountAlreadyInitialized whatever else is supplied, the record
\* unchanged.
C6_AlwaysAlreadyInitialized ==
    [][(InitiateDone(last') /\ Active(InitSlot)) =>
         /\ last'.err = "AccountAlreadyInitialized"
         /\ accounts'[last'.args.escrow_account] = InitSlot]_vars

\* C6 amended: an Initiate on a slot holding an initialized record always
\* fails and leaves the record unchanged; the error is
\* AccountAlreadyInitialized when the initializer signed and the receiving
\* account is owned by the token program, and the error of the earlier failed
\* check otherwise.
C6_ActiveSlotRejected ==
    [][(InitiateDone(last') /\ Active(InitSlot)) =>
         LET a == last'.args
         IN /\ last'.err # "Ok"
            /\ accounts'[a.escrow_account] = InitSlot
            /\ process_init_escrow(accounts, a).accts[a.escrow_account] = InitSlot
            /\ (a.initializer_is_signer
                /\ accounts[a.token_to_receive_account].owner = TOKEN_PROGRAM)
               => last'.err = "AccountAlreadyInitialized"
            /\ ~a.initializer_is_signer
               => last'.err = "MissingRequiredSignature"
            /\ (a.initializer_is_signer
                /\ accounts[a.token_to_receive_account].owner # TOKEN_PROGRAM)
               => last'.err = "IncorrectProgramId"]_vars

\* an Initiate was refused on a slot that holds an initialized record
C6_Witness ==
    /\ InitiateDone(last) /\ last.err = "AccountAlreadyInitialized"
    /\ Active(accounts[last.args.escrow_account])
    /\ accounts[last.args.escrow_account].data.initializer_pubkey
          # last.args.initializer

\* C7: an Initiate whose initializer has not signed fails with
\* MissingRequiredSignature, the handler having written no account and issued
\* no set_authority call; nothing is committed.
C7_NonSignerRejectedFirst ==
    [][(InitiateDone(last') /\ ~last'.args.initializer_is_signer) =>
         /\ last'.err = "MissingRequiredSignature"
         /\ last'.calls = << >>
         /\ process_init_escrow(accounts, last'.args).accts = accounts
         /\ accounts' = accounts]_vars

\* an unsigned Initiate on a funded, uninitialized slot with the initializer's
\* own token account was refused
C7_Witness ==
    /\ InitiateDone(last) /\ ~last.args.initializer_is_signer
    /\ last.err = "MissingRequiredSignature"
    /\ last.args.escrow_account \in Slots
    /\ accounts[last.args.escrow_account].lamports >= SlotRent
    /\ ~Active(accounts[last.args.escrow_account])
    /\ IsToken(accounts[last.args.temp_token_account])
    /\ accounts[last.args.temp_token_account].data.owner = last.args.initializer

\* the supplied deposit account is a token account whose balance is not the
\* amount argument
AmountDiffers(pre, a) ==
    /\ IsToken(pre[a.pdas_temp_token_account])
    /\ a.amount # pre[a.pdas_temp_token_account].data.amount

\* C8 as claimed: an Exchange whose amount argument differs from the deposit
\* account's balance fails with ExpectedAmountMismatch, with no transfer issued
\* and nothing changed.
C8_AlwaysAmountMismatch ==
    [][(ExchangeDone(last') /\ AmountDiffers(PreExchange, last'.args)) =>
         /\ last'.err = "ExpectedAmountMismatch"
         /\ last'.calls = << >>
         /\ accounts' = accounts]_vars

\* C8 amended: an Exchange by a taker who signed, whose amount argument
\* differs from the deposit account's balance, fails with
\* ExpectedAmountMismatch, with no transfer issued and nothing changed; when the
\* taker has not signed it fails with MissingRequiredSignature instead, equally
\* without effect.
C8_SignedAmountMismatch ==
    [][(ExchangeDone(last') /\ AmountDiffers(PreExchange, last'.args)) =>
         /\ last'.err = IF last'.args.taker_is_signer
                        THEN "ExpectedAmountMismatch"
                        ELSE "MissingRequiredSignature"
         /\ last'.calls = << >>
         /\ process_exchange(PreExchange, last'.args).accts = PreExchange
         /\ accounts' = accounts]_vars

\* an Exchange that matched an active record in everything but the amount was
\* refused
C8_Witness ==
    /\ ExchangeDone(last) /\ last.err = "ExpectedAmountMismatch"
    /\ LET a == last.args
           s == accounts[a.escrow_account]
       IN /\ a.escrow_account \in Slots /\ Active(s)
          /\ s.data.temp_token_account_pubkey = a.pdas_temp_token_account
          /\ s.data.initializer_pubkey = a.initializers_main_account
          /\ s.data.initializer_token_to_receive_account_pubkey
                = a.initializers_token_to_receive_account
          /\ CustodyHeld(accounts[a.pdas_temp_token_account])
          /\ Balance(accounts[a.pdas_temp_token_account]) > a.amount

\* the record differs from the supplied accounts in at least one identity
RecordMismatch(r, a) ==
    \/ r.temp_token_account_pubkey # a.pdas_temp_token_account
    \/ r.initializer_pubkey # a.initializers_main_account
    \/ r.initializer_token_to_receive_account_pubkey
          # a.initializers_token_to_receive_account

\* C9: an Exchange on an initialized record, by a taker who signed and with
\* the amount argument equal to the supplied deposit account's balance, fails
\* with InvalidAccountData before any token call is issued when the supplied
\* deposit account, initializer main account or initializer receiving account
\* differs from the identity stored in the record.
C9_SubstitutionRejected ==
    [][(/\ ExchangeDone(last')
        /\ Active(PreExchange[last'.args.escrow_account])
        /\ last'.args.taker_is_signer
        /\ IsToken(PreExchange[last'.args.pdas_temp_token_account])
        /\ ~AmountDiffers(PreExchange, last'.args)
        /\ RecordMismatch(PreExchange[last'.args.escrow_account].data, last'.args))
       => /\ last'.err = "InvalidAccountData"
          /\ last'.calls = << >>
          /\ process_exchange(PreExchange, last'.args).accts = PreExchange
          /\ accounts' = accounts]_vars

\* an Exchange naming the record's deposit and receiving accounts but another
\* main account was refused
C9_Witness ==
    /\ ExchangeDone(last) /\ last.err = "InvalidAccountData"
    /\ last.calls = << >>
    /\ LET a == last.args
           s == accounts[a.escrow_account]
       IN /\ a.escrow_account \in Slots /\ Active(s)
          /\ a.taker_is_signer
          /\ s.data.temp_token_account_pubkey = a.pdas_temp_token_account
          /\ Balance(accounts[a.pdas_temp_token_account]) = a.amount
          /\ s.data.initializer_token_to_receive_account_pubkey
                = a.initializers_token_to_receive_account
          /\ s.data.initializer_pubkey # a.initializers_main_account

\* the state of a record slot
SlotState(acct) ==
    IF Active(acct) THEN "ACTIVE"
    ELSE IF unpack_unchecked_ok(acct.data) THEN "UNINITIALIZED"
    ELSE "CLOSED"

\* C10: a record slot changes state only from UNINITIALIZED to ACTIVE, in a
\* successful Initiate on it, and from ACTIVE to CLOSED, in a successful
\* Exchange on it, and these calls do make that change; an Initiate on an
\* ACTIVE slot and an Exchange on an account that is not ACTIVE fail and leave
\* the state as it was.
C10_SlotStateMachine ==
    [][/\ \A s \in Slots :
            SlotState(accounts'[s]) # SlotState(accounts[s]) =>
               \/ /\ InitiateOk(last') /\ last'.args.escrow_account = s
                  /\ SlotState(accounts[s]) = "UNINITIALIZED"
                  /\ SlotState(accounts'[s]) = "ACTIVE"
               \/ /\ ExchangeOk(last') /\ last'.args.escrow_account = s
                  /\ SlotState(accounts[s]) = "ACTIVE"
                  /\ SlotState(accounts'[s]) = "CLOSED"
       /\ InitiateOk(last') =>
            SlotState(accounts'[last'.args.escrow_account]) = "ACTIVE"
       /\ ExchangeOk(last') =>
            SlotState(accounts'[last'.args.escrow_account]) = "CLOSED"
       /\ (InitiateDone(last') /\ SlotState(InitSlot) = "ACTIVE") =>
            /\ last'.err # "Ok"
            /\ SlotState(accounts'[last'.args.escrow_account]) = "ACTIVE"
       /\ (ExchangeDone(last')
           /\ SlotState(PreExchange[last'.args.escrow_account]) # "ACTIVE") =>
            /\ last'.err # "Ok"
            /\ SlotState(accounts'[last'.args.escrow_account])
                  = SlotState(accounts[last'.args.escrow_account])]_vars

\* an Exchange on the slot a successful Exchange had closed was refused
C10_Witness ==
    /\ ExchangeDone(last) /\ last.err # "Ok"
    /\ last.args.taker_is_signer
    /\ last.args.escrow_account \in Slots
    /\ SlotState(accounts[last.args.escrow_account]) = "CLOSED"
    /\ ~IsToken(accounts["aX"])

\* C11: of two Exchange attempts on the same record, in whichever order they
\* are serialized, at most one succeeds: in the state a successful Exchange
\* commits, every further Exchange that names the same slot of the program or
\* the same deposit account, whatever else it supplies, fails at a precondition,
\* before any token call, and moves nothing; the deposit is paid out once.
C11_AtMostOneExchange ==
    [][ExchangeOk(last') =>
         \A b \in ExchArgs :
            (\/ /\ b.escrow_account = last'.args.escrow_account
                   /\ b.escrow_account \in Slots
             \/ b.pdas_temp_token_account = last'.args.pdas_temp_token_account)
            => LET pre == ExchAccounts(accounts', b)
                   res == process_exchange(pre, b)
               IN /\ res.err # "Ok"
                  /\ res.calls = << >>
                  /\ res.accts = pre]_vars

\* the second of two takers of the same record was refused: the record slot
\* and the deposit account it names are gone, the first taker holds the tokens
C11_Witness ==
    /\ ExchangeDone(last) /\ last.err = "InvalidAccountData"
    /\ last.args.taker_is_signer
    /\ last.args.escrow_account \in Slots
    /\ last.args.amount = MaxAmount
    /\ last.args.pdas_temp_token_account = "aX"
    /\ ~IsToken(accounts["aX"])
    /\ ~Active(accounts[last.args.escrow_account])
    /\ Balance(accounts["bX"]) = MaxAmount

\* a token-program call on token account t that only wallet w has signed, w
\* naming itself or the Custody Address as the authority, is accepted
PartySignedCallAccepted(accts, t, w) ==
    \E authority \in {w, PdaKey} :
       \/ \E dest \in Tokens, n \in 0..MaxAmount :
             transfer(accts, t, dest, authority, {w}, n).err = "Ok"
       \/ \E new \in Wallets :
             set_authority(accts, t, new, authority, {w}).err = "Ok"
       \/ \E dest \in Wallets \cup Tokens :
             close_account(accts, t, dest, authority, {w}).err = "Ok"

\* C12: in every reachable state, the deposit account named by an ACTIVE
\* record (Initiate has succeeded, the matching Exchange has not) is a token
\* account whose authority is the Custody Address, and no transfer out of it,
\* re-assignment of its authority or closing of it that a party signs with
\* its own key is accepted by the token program.
C12_CustodyUntilExchange ==
    \A s \in Slots :
       Active(accounts[s]) =>
          LET d == accounts[s].data.temp_token_account_pubkey
          IN /\ CustodyHeld(accounts[d])
             /\ \A w \in Wallets : ~PartySignedCallAccepted(accounts, d, w)

\* C13: the four fields of a record that Initiate has populated stay as they
\* are in every step, an Initiate that fails or succeeds and an Exchange that
\* fails included, until a successful Exchange on that slot destroys the
\* record.
C13_RecordImmutable ==
    [][\A s \in Slots :
          Active(accounts[s]) =>
             \/ accounts'[s].data = accounts[s].data
             \/ /\ ExchangeOk(last')
                /\ last'.args.escrow_account = s
                /\ ~Active(accounts'[s])]_vars

\* an Exchange on an ACTIVE record failed at its second token call, after the
\* taker's payment had been made; the record still has its non-zero amount
C13_Witness ==
    /\ ExchangeDone(last) /\ last.err # "Ok"
    /\ Len(last.calls) = 2
    /\ last.args.escrow_account \in Slots
    /\ Active(accounts[last.args.escrow_account])
    /\ accounts[last.args.escrow_account].data.expected_amount = MaxAmount
    /\ accounts[last.args.escrow_account].data.temp_token_account_pubkey
          = last.args.pdas_temp_token_account

\* C14: the address Initiate makes the deposit account's authority is the
\* address, and stands for the nonce, that Exchange derives whatever accounts
\* its caller supplies, the pda_account placeholder included; so on a record
\* slot of the program the two calls Exchange signs as the Custody Address are
\* never refused for naming the wrong authority; they lack the signature only
\* when the caller has not supplied the Custody Address's account, and then
\* the Exchange fails.
C14_CustodyAddressFixed ==
    [][/\ InitiateOk(last') =>
            LET assigned == accounts'[last'.args.temp_token_account].data.owner
            IN \A b \in ExchArgs :
                  /\ ExchDerivedAuthority(b).pda = assigned
                  /\ create_program_address(ExchDerivedAuthority(b).nonce,
                                            PROGRAM_ID) = assigned
       /\ (/\ ExchangeDone(last') /\ last'.args.escrow_account \in Slots
           /\ Len(last'.calls) >= 2) =>
            /\ last'.err # "OwnerMismatch"
            /\ last'.err = "MissingRequiredSignature"
                  => last'.args.pda_account # PdaKey
            /\ last'.args.pda_account # PdaKey => last'.err # "Ok"]_vars

\* an Exchange that put another account in the place of the Custody Address's
\* was refused at the release for the missing signature, not for its authority
C14_Witness ==
    /\ ExchangeDone(last) /\ last.err = "MissingRequiredSignature"
    /\ Len(last.calls) = 2
    /\ last.args.pda_account # PdaKey
    /\ last.args.escrow_account \in Slots
    /\ CustodyHeld(accounts[last.args.pdas_temp_token_account])
    /\ Balance(accounts[last.args.pdas_temp_token_account]) = MaxAmount

SweptLamports ==
    PreExchange[last'.args.initializers_main_account].lamports
    + PreExchange[last'.args.pdas_temp_token_account].lamports
    + PreExchange[last'.args.escrow_account].lamports

\* C17: an Exchange whose lamport sweep would take the initializer's main
\* account beyond the largest lamport value does not succeed and nothing of it
\* is committed; the sum never wraps: a successful Exchange leaves the main
\* account with exactly the sum; and an Exchange that fails with
\* AmountOverflow has made its three token calls, yet every account is as
\* before, the record ACTIVE and the deposit under the Custody Address.
C17_OverflowRejected ==
    [][ExchangeDone(last') =>
         LET a == last'.args
         IN /\ SweptLamports > MaxLamports =>
                  /\ last'.err # "Ok"
                  /\ accounts' = accounts
            /\ last'.err = "Ok" =>
                  accounts'[a.initializers_main_account].lamports
                     = SweptLamports
            /\ last'.err = "AmountOverflow" =>
                  /\ Len(last'.calls) = 3
                  /\ SweptLamports > MaxLamports
                  /\ accounts' = accounts
                  /\ CustodyHeld(accounts'[a.pdas_temp_token_account])
                  /\ a.escrow_account \in Slots
                        => Active(accounts'[a.escrow_account])]_vars

\* bob's offer was taken by a taker who paid and was paid, and the sweep into
\* bob's main account overflowed: the record and the deposit are still there
C17_Witness ==
    /\ ExchangeDone(last) /\ last.err = "AmountOverflow"
    /\ last.args.escrow_account \in Slots
    /\ Active(accounts[last.args.escrow_account])
    /\ CustodyHeld(accounts[last.args.pdas_temp_token_account])
    /\ accounts[last.args.initializers_main_account].lamports = RichLamports
    /\ accounts[last.args.escrow_account].data.expected_amount = MaxAmount

RECURSIVE TokenSupply(_, _, _)
\* the tokens of one mint held by the token accounts among the keys S
TokenSupply(accts, mint, S) ==
    IF S = {} THEN 0
    ELSE LET k == CHOOSE x \in S : TRUE
             held == IF IsToken(accts[k]) /\ accts[k].data.mint = mint
                     THEN accts[k].data.amount ELSE 0
         IN held + TokenSupply(accts, mint, S \ {k})

RECURSIVE LamportSupply(_, _)
\* the lamports held by the accounts among the keys S
LamportSupply(accts, S) ==
    IF S = {} THEN 0
    ELSE LET k == CHOOSE x \in S : TRUE
         IN accts[k].lamports + LamportSupply(accts, S \ {k})

\* no step changes the tokens in existence of either mint or the lamports in
\* existence, and a successful Initiate changes no token balance and no
\* lamport balance
ValueConserved ==
    accounts' # accounts =>
    /\ \A mint \in {"X", "Y"} :
          TokenSupply(accounts', mint, Keys) = TokenSupply(accounts, mint, Keys)
    /\ LamportSupply(accounts', Keys) = LamportSupply(accounts, Keys)
    /\ InitiateOk(last') =>
          \A k \in Keys : /\ Balance(accounts'[k]) = Balance(accounts[k])
                          /\ accounts'[k].lamports = accounts[k].lamports

\* the taker's sending account holds expected_amount less than before
TakerDebitedExpected ==
    LET a == last'.args
        r == PreExchange[a.escrow_account].data
    IN Balance(accounts'[a.takers_sending_token_account])
          = Balance(accounts[a.takers_sending_token_account])
            - r.expected_amount

\* C19 as claimed: every step conserves the token and lamport totals, a
\* successful Initiate changes no balance, and every successful Exchange
\* debits the taker's sending account by exactly expected_amount.
C19_ConservedAndDebited ==
    [][/\ ValueConserved
       /\ ExchangeOk(last') => TakerDebitedExpected]_vars

\* C19 amended: the same, the debit of exactly expected_amount holding for
\* every successful Exchange whose taker's sending account is neither the
\* initializer's receiving account nor the taker's receiving account.
C19_ConservedAndDebitedDistinct ==
    [][/\ ValueConserved
       /\ (/\ ExchangeOk(last')
           /\ last'.args.takers_sending_token_account
                 \notin {last'.args.initializers_token_to_receive_account,
                          last'.args.takers_token_to_receive_account})
          => TakerDebitedExpected]_vars

\* bob has taken alice's offer of her X deposit against his Y tokens: his
\* sending account is empty, and the lamports of the deposit account and of
\* the slot are in alice's main account
C19_Witness ==
    /\ ExchangeOk(last) /\ last.args.escrow_account \in Slots
    /\ last.args.takers_sending_token_account = "bY"
    /\ last.args.initializers_main_account = "alice"
    /\ Balance(accounts["bY"]) = 0
    /\ Balance(accounts["aY"]) = MaxAmount
    /\ accounts["alice"].lamports = 1 + TokenRent + SlotRent

\* the four preconditions of the Initiate recorded in last' hold, taking a
\* slot without an initialized record as uninitialized, and the token program
\* accepts the hand-over of the deposit account
InitiateAcceptable ==
    LET a == last'.args
    IN /\ a.initializer_is_signer
       /\ accounts[a.token_to_receive_account].owner = TOKEN_PROGRAM
       /\ is_exempt(InitSlot.lamports, InitSlot.data)
       /\ ~Active(InitSlot)
       /\ set_authority(accounts, a.temp_token_account, InitNewAuthority,
                        a.initializer, {a.initializer}).err = "Ok"

NamedElsewhere(accts, s, d) ==
    \E o \in OfferSlots \ {s} :
       /\ Active(accts[o])
       /\ accts[o].data.temp_token_account_pubkey = d

\* C18: no two ACTIVE records name the same deposit account: an Initiate that
\* names a deposit account an ACTIVE record in another slot names fails and
\* commits nothing, by the token program's refusal of set_authority
\* (OwnerMismatch) when its four preconditions hold, and the record it had
\* written into its slot is not kept.
C18_OneRecordPerDeposit ==
    [][/\ \A s \in OfferSlots :
            Active(accounts'[s]) =>
               ~NamedElsewhere(accounts', s,
                               accounts'[s].data.temp_token_account_pubkey)
       /\ (/\ InitiateDone(last')
           /\ NamedElsewhere(accounts, last'.args.escrow_account,
                              last'.args.temp_token_account)) =>
            /\ last'.err # "Ok"
            /\ accounts' = accounts
            /\ (/\ last'.args.initializer_is_signer
                /\ accounts[last'.args.token_to_receive_account].owner
                      = TOKEN_PROGRAM
                /\ is_exempt(InitSlot.lamports, InitSlot.data)
                /\ ~Active(InitSlot))
               => /\ last'.err = "OwnerMismatch"
                  /\ last'.calls = <<"set_authority">>
                  /\ Active(process_init_escrow(accounts, last'.args)
                               .accts[last'.args.escrow_account])]_vars

\* the initializer of an offer named its deposit account again with the other,
\* unused slot: set_authority was refused and that slot is still unused
C18_Witness ==
    /\ InitiateDone(last) /\ last.err = "OwnerMismatch"
    /\ NamedElsewhere(accounts, last.args.escrow_account,
                      last.args.temp_token_account)
    /\ \E o \in OfferSlots :
          /\ Active(accounts[o])
          /\ accounts[o].data.initializer_pubkey = last.args.initializer
    /\ SlotState(accounts[last.args.escrow_account]) = "UNINITIALIZED"

\* b is what a taker in good standing supplies for the ACTIVE record in its
\* slot: its signature, the Custody Address's account, the deposit account's
\* current balance as the amount, a sending account of its own that holds at
\* least expected_amount of the mint of the initializer's receiving account,
\* and a receiving account of the deposit's mint, the four token accounts
\* being different accounts
WellFormedTake(accts, b) ==
    LET r == accts[b.escrow_account].data
        deposit == accts[b.pdas_temp_token_account]
        sending == accts[b.takers_sending_token_account]
        receiving == accts[b.takers_token_to_receive_account]
        paid == accts[b.initializers_token_to_receive_account]
    IN /\ b.taker_is_signer
       /\ b.pda_account = PdaKey
       /\ CustodyHeld(deposit) /\ b.amount = deposit.data.amount
       /\ IsToken(sending) /\ IsToken(receiving) /\ IsToken(paid)
       /\ sending.data.owner = b.taker
       /\ sending.data.mint = paid.data.mint
       /\ sending.data.amount >= r.expected_amount
       /\ receiving.data.mint = deposit.data.mint
       /\ DistinctTokenAccounts(b)

\* what taker t supplies for the record in slot s with its signature, the
\* Custody Address's account and the deposit account's current balance
SignedTake(accts, s, t, sending, receiving) ==
    [taker |-> t, taker_is_signer |-> TRUE,
     takers_sending_token_account |-> sending,
     takers_token_to_receive_account |-> receiving,
     pdas_temp_token_account |-> accts[s].data.temp_token_account_pubkey,
     initializers_main_account |-> accts[s].data.initializer_pubkey,
     initializers_token_to_receive_account |->
         accts[s].data.initializer_token_to_receive_account_pubkey,
     escrow_account |-> s, pda_account |-> PdaKey,
     amount |-> Balance(accts[accts[s].data.temp_token_account_pubkey])]

====
